---- MODULE Spec2Model ----
(***************************************************************************)
(* Spaced-repetition progress tracking of the SurgicalPrep backend         *)
(* (app/api/endpoints/quiz.py): update_progress (SM-2 variant), reached    *)
(* through record_flashcard_result and submit_answer, update_bookmark and  *)
(* get_due_for_review, over the user_instrument_progress table             *)
(* (app/db/models.py); the quiz sessions of start_quiz, submit_answer and  *)
(* complete_quiz with the free tier's daily limit; the preference cards of *)
(* app/api/endpoints/cards.py with the free tier's card limit; and         *)
(* delete_account of app/api/endpoints/users.py with its cascade.          *)
(*                                                                         *)
(* ease_factor is a Python float stored in a double-precision column.  It  *)
(* is modelled bit-exactly: a double d is the fixed-point integer          *)
(* d * 2^60, written as NumLimbs little-endian digits in base 4096 (TLC's  *)
(* integers are 32 bits wide), and every float operation is the exact      *)
(* operation followed by IEEE-754 round-to-nearest-even to 53 significant  *)
(* bits.                                                                   *)
(***************************************************************************)
EXTENDS Integers, Sequences, FiniteSets, Bags, TLC

----------------------------------------------------------------------------
(* Fixed-point numbers: base-4096 digits, 5 fraction digits (2^-60 units).  *)
(* MulSmall needs n < 2^19 to stay inside TLC's integers; MulL takes the    *)
(* multiplier digit by digit.                                               *)

MantissaBits == 53          \* significant bits of a double
LimbBits == 3 * 4           \* a digit is three hexadecimal digits
LimbBase == 2^LimbBits
FracLimbs == 60 \div LimbBits
NumLimbs == FracLimbs + 3

Limbs == 1..NumLimbs

\* exact sum of two fixed-point numbers
AddL(a, b) ==
  LET c[j \in 0..NumLimbs] ==
        IF j = 0 THEN 0 ELSE (a[j] + b[j] + c[j-1]) \div LimbBase
  IN  [j \in Limbs |-> (a[j] + b[j] + c[j-1]) % LimbBase]

\* exact difference a - b, for a >= b
SubL(a, b) ==
  LET w[j \in 0..NumLimbs] ==
        IF j = 0 THEN 0 ELSE IF a[j] - b[j] - w[j-1] < 0 THEN 1 ELSE 0
  IN  [j \in Limbs |-> (a[j] - b[j] - w[j-1] + LimbBase) % LimbBase]

\* exact product of a fixed-point number and a small non-negative integer
MulSmall(a, n) ==
  LET c[j \in 0..NumLimbs] ==
        IF j = 0 THEN 0 ELSE (a[j] * n + c[j-1]) \div LimbBase
  IN  [j \in Limbs |-> (a[j] * n + c[j-1]) % LimbBase]

\* a * 4096: the digits move up by one place
ShiftL(a) == [j \in Limbs |-> IF j = 1 THEN 0 ELSE a[j-1]]

\* exact product of a fixed-point number and a non-negative integer
RECURSIVE MulL(_, _)
MulL(a, n) ==
  IF n < LimbBase THEN MulSmall(a, n)
  ELSE AddL(ShiftL(MulL(a, n \div LimbBase)), MulSmall(a, n % LimbBase))

\* a < b
LessL(a, b) ==
  \E j \in Limbs : a[j] < b[j] /\ \A k \in Limbs : k > j => a[k] = b[k]

ZeroL == [j \in Limbs |-> 0]

\* the fixed-point number 2^k (in 2^-60 units)
Pow2L(k) ==
  [j \in Limbs |-> IF j = (k \div LimbBits) + 1 THEN 2^(k % LimbBits) ELSE 0]

\* index of the most significant set bit of a non-zero number
TopBit(a) ==
  LET j == CHOOSE i \in Limbs : a[i] # 0 /\ \A k \in Limbs : k > i => a[k] = 0
      b == CHOOSE i \in 0..(LimbBits - 1) : a[j] >= 2^i /\ a[j] < 2^(i+1)
  IN  LimbBits * (j - 1) + b

\* a mod 2^k
LowBits(a, k) ==
  [j \in Limbs |-> IF LimbBits * j <= k THEN a[j]
                   ELSE IF LimbBits * (j - 1) >= k THEN 0
                   ELSE a[j] % 2^(k - LimbBits * (j - 1))]

\* bit k of a
BitAt(a, k) == (a[(k \div LimbBits) + 1] \div 2^(k % LimbBits)) % 2

\* integer part (truncation toward zero of a non-negative number)
TruncL(a) == a[FracLimbs + 1] + LimbBase * a[FracLimbs + 2]
               + LimbBase * LimbBase * a[FracLimbs + 3]

\* the integer n as a fixed-point number
IntL(n) == MulSmall(Pow2L(LimbBits * FracLimbs), n)

\* IEEE-754 round-to-nearest, ties-to-even, of an exact value to a double
RoundDouble(a) ==
  IF a = ZeroL \/ TopBit(a) < MantissaBits THEN a
  ELSE LET k    == TopBit(a) - (MantissaBits - 1)
           rem  == LowBits(a, k)
           q    == SubL(a, rem)
           half == Pow2L(k - 1)
       IN  IF LessL(half, rem) \/ (rem = half /\ BitAt(q, k) = 1)
           THEN AddL(q, Pow2L(k))
           ELSE q

\* float + float, float - float (a >= b), max(float, float), int * float
FAdd(a, b) == RoundDouble(AddL(a, b))
FSub(a, b) == RoundDouble(SubL(a, b))
FMax(a, b) == IF LessL(a, b) THEN b ELSE a
FMulInt(n, a) == RoundDouble(MulL(a, n))

\* the float literals of update_progress and of the ease_factor column
F0_1 == <<2464, 2457, 2457, 2457, 409, 0, 0, 0>>      \* 0.1 = 0x1.999999999999ap-4
F0_2 == <<832, 819, 819, 819, 819, 0, 0, 0>>          \* 0.2 = 0x1.999999999999ap-3
F1_3 == <<3328, 3276, 3276, 3276, 1228, 1, 0, 0>>     \* 1.3 = 0x1.4cccccccccccdp+0
F2_5 == <<0, 0, 0, 0, 2048, 2, 0, 0>>                 \* 2.5

----------------------------------------------------------------------------
(* Bounds of the model.                                                     *)

Day == 2             \* clock ticks per day (timedelta(days=1))
MaxSkew == 1         \* ticks the clock may advance between the two clock reads of one call
MaxAttempts == 2     \* Spec: graded attempts, all keys together
MaxTicks == 2        \* Spec: ticks the clock runs
MaxStreak == 9       \* SpecStreak: graded attempts of the one key
MaxSession == 4      \* SpecCalendar: graded attempts of the one key
MaxCalendar == 24    \* SpecCalendar: days the clock runs
MaxProcs == 3        \* SpecConc: requests in flight, one transaction each
MaxDueAttempts == 3  \* SpecDue: graded attempts, all keys together
MaxDueTicks == 3     \* SpecDue: ticks the clock runs
MaxLimit == 2        \* SpecDue: largest limit asked of the review-due query
MaxStarts == 4       \* SpecQuota: rows of quiz_sessions
MaxQuizzes == 1      \* SpecQuiz: rows of quiz_sessions
MaxAnswers == 1      \* SpecQuiz: graded answers, all sessions together
MaxCards == 7        \* SpecCards: rows of preference_cards
MaxMastery == 14     \* SpecMastery: graded attempts of the one key
MaxSessionAnswers == 3  \* SpecSession: graded answers of the session

Users == {"u1"}
Instruments == {"i1", "i2"}

\* the (user, instrument) pairs requests are made for
Keys == {<<"u1", "i1">>, <<"u1", "i2">>}
OneKey == {<<"u1", "i1">>}
DueKeys == {<<"u1", "i1">>, <<"u1", "i2">>, <<"u2", "i1">>}

----------------------------------------------------------------------------
(* State.                                                                   *)

VARIABLES
  progress,   \* rows of user_instrument_progress (a bag; the primary key is left out)
  now,        \* the wall clock, datetime.now(timezone.utc), in ticks
  last,       \* the request handled last and its outcome
  txn,        \* requests in flight, each in a database transaction of its own
  users,      \* rows of users
  quiz_sessions,  \* rows of quiz_sessions, in the order of their INSERT
  cards       \* rows of preference_cards

vars == <<progress, now, last, txn, users, quiz_sessions, cards>>

\* the tables and transactions a study request leaves alone
otherVars == <<txn, users, quiz_sessions, cards>>

\* Optional[datetime]: <<>> is None, <<t>> is the instant t
None == <<>>
Some(t) == <<t>>

\* the row an INSERT of UserInstrumentProgress(user_id, instrument_id) stores:
\* the column defaults fill every attribute the handler left unset
NewProgress(u, i) ==
  [ user_id |-> u, instrument_id |-> i,
    ease_factor |-> F2_5, interval_days |-> 1, repetitions |-> 0,
    next_review_at |-> None,
    times_studied |-> 0, times_correct |-> 0, last_studied_at |-> None,
    is_bookmarked |-> FALSE ]

\* variant: the row is looked up by its instrument alone
SelectProgress_AnyUser(rows, u, i) ==
  {r \in BagToSet(rows) : r.instrument_id = i}

\* select(UserInstrumentProgress).where(user_id == u).where(instrument_id == i)
SelectProgress(rows, u, i) ==
  {r \in BagToSet(rows) : r.user_id = u /\ r.instrument_id = i}

\* select(User).where(User.id == user_id)
SelectUser(rows, u) == {x \in rows : x.id = u}

\* ForeignKey("users.id") of user_instrument_progress.user_id: an INSERT for
\* a user that is not in users raises IntegrityError
ForeignKeyHolds(userRows, u) == SelectUser(userRows, u) # {}

\* .scalar_one_or_none(): "none", "one" or raising MultipleResultsFound ("many")
ScalarOneOrNone(rows, u, i) ==
  LET found == SelectProgress(rows, u, i)
  IN  IF found = {} THEN "none"
      ELSE IF \E r \in found : CopiesIn(r, rows) > 1 \/ found # {r} THEN "many"
      ELSE "one"

\* graded attempts recorded in the table, all rows together
RECURSIVE SumStudied(_, _)
SumStudied(rows, S) ==
  IF S = {} THEN 0
  ELSE LET r == CHOOSE x \in S : TRUE
       IN  r.times_studied * CopiesIn(r, rows) + SumStudied(rows, S \ {r})

TotalStudied(rows) == SumStudied(rows, BagToSet(rows))

----------------------------------------------------------------------------
(* update_progress, lines 221-242: the SM-2 step on a loaded row p.  t1 is  *)
(* the clock read of line 222, t2 the clock read of line 242.               *)

\* variant: the interval grows by the ease factor as already adjusted by +0.1
Sm2Interval_AdjustedEase(p) ==
  IF p.repetitions + 1 = 1 THEN 1
  ELSE IF p.repetitions + 1 = 2 THEN 6
  ELSE TruncL(FMulInt(p.interval_days, FAdd(p.ease_factor, F0_1)))

\* variant: from the third correct answer on the interval is kept
Sm2Interval_Kept(p) ==
  IF p.repetitions + 1 = 1 THEN 1
  ELSE IF p.repetitions + 1 = 2 THEN 6
  ELSE p.interval_days

Sm2Interval(p) ==
  IF p.repetitions + 1 = 1 THEN 1
  ELSE IF p.repetitions + 1 = 2 THEN 6
  ELSE TruncL(FMulInt(p.interval_days, p.ease_factor))

GradeCorrect(p) ==
  [p EXCEPT !.times_correct = p.times_correct + 1,
            !.repetitions   = p.repetitions + 1,
            !.interval_days = Sm2Interval(p),
            !.ease_factor   = FMax(F1_3, FAdd(p.ease_factor, F0_1))]

\* variant: no floor on the ease factor
GradeIncorrect_NoFloor(p) ==
  [p EXCEPT !.repetitions   = 0,
            !.interval_days = 1,
            !.ease_factor   = FSub(p.ease_factor, F0_2)]

\* variant: the interval is zeroed together with the streak
GradeIncorrect_ZeroInterval(p) ==
  [p EXCEPT !.repetitions   = 0,
            !.interval_days = 0,
            !.ease_factor   = FMax(F1_3, FSub(p.ease_factor, F0_2))]

\* variant: the streak is shortened by one, not reset
GradeIncorrect_ShortenStreak(p) ==
  [p EXCEPT !.repetitions   = IF p.repetitions > 0 THEN p.repetitions - 1 ELSE 0,
            !.interval_days = 1,
            !.ease_factor   = FMax(F1_3, FSub(p.ease_factor, F0_2))]

\* variant: the penalty is 0.1
GradeIncorrect_SmallPenalty(p) ==
  [p EXCEPT !.repetitions   = 0,
            !.interval_days = 1,
            !.ease_factor   = FMax(F1_3, FSub(p.ease_factor, F0_1))]

GradeIncorrect(p) ==
  [p EXCEPT !.repetitions   = 0,
            !.interval_days = 1,
            !.ease_factor   = FMax(F1_3, FSub(p.ease_factor, F0_2))]

\* variant: times_studied is counted in the else branch only
Grade_StudiedOnMiss(p, is_correct, t1, t2) ==
  LET q == [p EXCEPT !.times_studied = IF is_correct THEN p.times_studied
                                       ELSE p.times_studied + 1,
                     !.last_studied_at = Some(t1)]
      g == IF is_correct THEN GradeCorrect(q) ELSE GradeIncorrect(q)
  IN  [g EXCEPT !.next_review_at = Some(t2 + g.interval_days * Day)]

\* variant: the next review is scheduled by a correct answer only
Grade_ScheduleOnCorrect(p, is_correct, t1, t2) ==
  LET q == [p EXCEPT !.times_studied = p.times_studied + 1,
                     !.last_studied_at = Some(t1)]
      g == IF is_correct THEN GradeCorrect(q) ELSE GradeIncorrect(q)
  IN  IF is_correct THEN [g EXCEPT !.next_review_at = Some(t2 + g.interval_days * Day)]
      ELSE g

Grade(p, is_correct, t1, t2) ==
  LET q == [p EXCEPT !.times_studied = p.times_studied + 1,
                     !.last_studied_at = Some(t1)]
      g == IF is_correct THEN GradeCorrect(q) ELSE GradeIncorrect(q)
  IN  [g EXCEPT !.next_review_at = Some(t2 + g.interval_days * Day)]

\* the last day a datetime can hold (datetime.max, 9999-12-31), in days from
\* the origin of the clock (2026-01-01)
DatetimeMaxDay == 2912442

\* line 242: datetime + timedelta raises OverflowError ("date value out of
\* range") when the sum lies after datetime.max
DateOverflow(g, t2) == (t2 + g.interval_days * Day) \div Day > DatetimeMaxDay

\* update_progress as a whole.  A row that does not exist yet is built as
\* UserInstrumentProgress(user_id, instrument_id): the column defaults are
\* applied by the INSERT only, so times_studied is still None at line 221
\* and "None += 1" raises TypeError; nothing has been flushed by then.
UpdateProgress(rows, u, i, is_correct, t1, t2) ==
  LET one == ScalarOneOrNone(rows, u, i)
  IN  IF one = "none" THEN [raised |-> "TypeError", rows |-> rows]
      ELSE IF one = "many" THEN [raised |-> "MultipleResultsFound", rows |-> rows]
      ELSE LET p == CHOOSE r \in SelectProgress(rows, u, i) : TRUE
               g == Grade(p, is_correct, t1, t2)
           IN  IF DateOverflow(g, t2)
               THEN [raised |-> "OverflowError", rows |-> rows]
               ELSE [raised |-> "no",
                     rows |-> (rows (-) SetToBag({p})) (+) SetToBag({g})]

----------------------------------------------------------------------------
(* Requests.  Each handler runs in one database transaction, committed     *)
(* when the handler returns and discarded when it raises.                   *)

\* POST /flashcard-result
RecordFlashcardResult(u, i, result, skew, maxAttempts, maxNow) ==
  /\ TotalStudied(progress) < maxAttempts
  /\ now + skew <= maxNow
  /\ LET is_correct == (result = "got_it")
         res == UpdateProgress(progress, u, i, is_correct, now, now + skew)
     IN  /\ progress' = res.rows
         /\ last' = [op |-> "grade", user_id |-> u, instrument_id |-> i,
                     result |-> result, is_correct |-> is_correct,
                     status |-> IF res.raised = "no" THEN "recorded" ELSE "error"]
         /\ now' = IF res.raised = "no" THEN now + skew ELSE now
  /\ UNCHANGED otherVars

\* variant: the row is rebuilt from the column defaults on every bookmark
UpdateBookmark_Rebuild(u, i, is_bookmarked) ==
  LET one == ScalarOneOrNone(progress, u, i)
  IN  /\ one # "many"
      /\ progress' = (progress (-) SetToBag(SelectProgress(progress, u, i)))
                        (+) SetToBag({[NewProgress(u, i) EXCEPT
                                        !.is_bookmarked = is_bookmarked]})
      /\ last' = [op |-> "bookmark", user_id |-> u, instrument_id |-> i,
                  is_bookmarked |-> is_bookmarked, status |-> "updated"]
      /\ UNCHANGED <<now, otherVars>>

\* POST /bookmark
UpdateBookmark(u, i, is_bookmarked) ==
  LET one == ScalarOneOrNone(progress, u, i)
  IN  /\ IF one = "many" \/ (one = "none" /\ ~ForeignKeyHolds(users, u))
         THEN /\ UNCHANGED progress
              /\ last' = [op |-> "bookmark", user_id |-> u, instrument_id |-> i,
                          is_bookmarked |-> is_bookmarked, status |-> "error"]
         ELSE /\ LET p == IF one = "none" THEN NewProgress(u, i)
                          ELSE CHOOSE r \in SelectProgress(progress, u, i) : TRUE
                 IN  progress' = (progress (-) SetToBag({p}))
                                   (+) SetToBag({[p EXCEPT !.is_bookmarked = is_bookmarked]})
              /\ last' = [op |-> "bookmark", user_id |-> u, instrument_id |-> i,
                          is_bookmarked |-> is_bookmarked, status |-> "updated"]
      /\ UNCHANGED <<now, otherVars>>

\* time passes between requests
Tick(maxNow) ==
  /\ now < maxNow
  /\ now' = now + 1
  /\ last' = [op |-> "tick"]
  /\ UNCHANGED <<progress, otherVars>>

\* the transactions of the requests that may be in flight together
Procs == 1..MaxProcs

\* a request that has not been sent yet.  found is the row its SELECT
\* returned, computed the object as the handler left it for the flush.
IdleTxn ==
  [ pc |-> "idle", op |-> "none", user_id |-> "", instrument_id |-> "",
    arg |-> FALSE, found |-> None, computed |-> None, t1 |-> 0,
    status |-> "none" ]

\* the accounts: one on the free tier, one on the premium tier
SeedUsers ==
  { [id |-> "u1", subscription_tier |-> "free"],
    [id |-> "u2", subscription_tier |-> "premium"] }

\* the system template the seed script inserts: no owner, public
SeedCards ==
  { [id |-> 0, user_id |-> None, is_template |-> TRUE, is_public |-> TRUE] }

Init ==
  /\ progress = EmptyBag
  /\ now = 0
  /\ last = [op |-> "none"]
  /\ txn = [p \in Procs |-> IdleTxn]
  /\ users = SeedUsers
  /\ quiz_sessions = <<>>
  /\ cards = SeedCards

GradeRequests(keys, maxAttempts, maxNow) ==
  \E k \in keys, result \in {"got_it", "study_more"}, skew \in 0..MaxSkew :
    RecordFlashcardResult(k[1], k[2], result, skew, maxAttempts, maxNow)

BookmarkRequests(keys) ==
  \E k \in keys, b \in BOOLEAN : UpdateBookmark(k[1], k[2], b)

\* two instruments of one user, few attempts, a short clock
Next ==
  \/ GradeRequests(Keys, MaxAttempts, MaxTicks)
  \/ BookmarkRequests(Keys)
  \/ Tick(MaxTicks)

Spec == Init /\ [][Next]_vars

\* one key, long answer sequences, the clock moves only inside a call
NextStreak ==
  \/ GradeRequests(OneKey, MaxStreak, 1)
  \/ BookmarkRequests(OneKey)
  \/ Tick(1)

SpecStreak == Init /\ [][NextStreak]_vars

\* one key, the longest answer sequences, the clock stands still
NextMastery ==
  \/ \E result \in {"got_it", "study_more"} :
       RecordFlashcardResult("u1", "i1", result, 0, MaxMastery, 0)
  \/ UpdateBookmark("u1", "i1", TRUE)

SpecMastery == Init /\ [][NextMastery]_vars

\* one key, a short answer sequence spread over weeks: the user answers a
\* card interval_days days after the previous answer, not earlier or later
ReviewDay(r) == r.last_studied_at[1] + r.interval_days * Day

OnSchedule ==
  \A r \in BagToSet(progress) :
    IF r.last_studied_at = None THEN TRUE ELSE now = ReviewDay(r)

Waiting ==
  \A r \in BagToSet(progress) :
    IF r.last_studied_at = None THEN TRUE ELSE now < ReviewDay(r)

NextCalendar ==
  \/ OnSchedule /\ GradeRequests(OneKey, MaxSession, MaxCalendar * Day)
  \/ BookmarkRequests(OneKey)
  \/ Waiting /\ Tick(MaxCalendar * Day)

SpecCalendar == Init /\ [][NextCalendar]_vars

----------------------------------------------------------------------------
(* Requests in flight together.  Every request has a database session and  *)
(* transaction of its own and gives way to the others at each await: after *)
(* the SELECT the handler runs without interruption up to its flush, and   *)
(* the flush is followed by the commit on return.  The UPDATE or INSERT of *)
(* the flush takes the row (or index entry) lock until that commit, so the *)
(* flush and the commit are one step for every other transaction.          *)

\* the UPDATE a flush emits for a loaded object: it sets the attributes
\* whose value differs from the loaded one, on the row as it is stored now
WriteBack(cur, loaded, computed) ==
  [f \in DOMAIN cur |-> IF computed[f] # loaded[f] THEN computed[f] ELSE cur[f]]

\* variant: the table has no unique index
InsertProgress_NoUniqueIndex(rows, r) ==
  [raised |-> "no", rows |-> rows (+) SetToBag({r})]

\* the INSERT of a new row under idx_user_instrument_progress_unique and
\* the foreign key to users
InsertProgress(rows, r) ==
  IF \/ SelectProgress(rows, r.user_id, r.instrument_id) # {}
     \/ ~ForeignKeyHolds(users, r.user_id)
  THEN [raised |-> "IntegrityError", rows |-> rows]
  ELSE [raised |-> "no", rows |-> rows (+) SetToBag({r})]

\* POST /flashcard-result up to its flush: the SELECT of update_progress and
\* lines 214-242 on the loaded object
BeginGrade(p, u, i, result, skew, maxNow) ==
  /\ txn[p].pc = "idle"
  /\ now + skew <= maxNow
  /\ LET is_correct == (result = "got_it")
         one == ScalarOneOrNone(progress, u, i)
         req == [IdleTxn EXCEPT !.op = "grade", !.user_id = u,
                                !.instrument_id = i, !.arg = is_correct,
                                !.t1 = now]
         raises == IF one # "one" THEN TRUE
                   ELSE LET r == CHOOSE x \in SelectProgress(progress, u, i) : TRUE
                        IN  DateOverflow(Grade(r, is_correct, now, now + skew),
                                         now + skew)
     IN  IF ~raises
         THEN LET r == CHOOSE x \in SelectProgress(progress, u, i) : TRUE
              IN  /\ txn' = [txn EXCEPT ![p] =
                              [req EXCEPT !.pc = "flushing", !.found = Some(r),
                                          !.computed = Some(Grade(r, is_correct,
                                                                  now, now + skew))]]
                  /\ now' = now + skew
         ELSE /\ txn' = [txn EXCEPT ![p] =
                          [req EXCEPT !.pc = "done", !.status = "error"]]
              /\ UNCHANGED now
  /\ UNCHANGED <<progress, last, users, quiz_sessions, cards>>

\* POST /bookmark up to its flush
BeginBookmark(p, u, i, is_bookmarked) ==
  /\ txn[p].pc = "idle"
  /\ LET one == ScalarOneOrNone(progress, u, i)
         req == [IdleTxn EXCEPT !.op = "bookmark", !.user_id = u,
                                !.instrument_id = i, !.arg = is_bookmarked,
                                !.t1 = now]
     IN  txn' = [txn EXCEPT ![p] =
           IF one = "many" THEN [req EXCEPT !.pc = "done", !.status = "error"]
           ELSE IF one = "none"
           THEN [req EXCEPT !.pc = "flushing",
                            !.computed = Some([NewProgress(u, i) EXCEPT
                                                !.is_bookmarked = is_bookmarked])]
           ELSE LET r == CHOOSE x \in SelectProgress(progress, u, i) : TRUE
                IN  [req EXCEPT !.pc = "flushing", !.found = Some(r),
                                !.computed = Some([r EXCEPT
                                                    !.is_bookmarked = is_bookmarked])]]
  /\ UNCHANGED <<progress, now, last, users, quiz_sessions, cards>>

\* await db.flush() and the commit on return
Flush(p) ==
  /\ txn[p].pc = "flushing"
  /\ LET t == txn[p]
         ok == IF t.op = "grade" THEN "recorded" ELSE "updated"
     IN  IF t.found = None
         THEN LET res == InsertProgress(progress, t.computed[1])
              IN  /\ progress' = res.rows
                  /\ txn' = [txn EXCEPT ![p].pc = "done",
                                        ![p].status = IF res.raised = "no"
                                                      THEN ok ELSE "error"]
         ELSE LET cur == CHOOSE x \in SelectProgress(progress, t.user_id,
                                                     t.instrument_id) : TRUE
              IN  /\ progress' = (progress (-) SetToBag({cur}))
                                   (+) SetToBag({WriteBack(cur, t.found[1],
                                                           t.computed[1])})
                  /\ txn' = [txn EXCEPT ![p].pc = "done", ![p].status = ok]
  /\ UNCHANGED <<now, last, users, quiz_sessions, cards>>

\* up to MaxProcs requests of one user, in any interleaving
NextConc ==
  \/ \E p \in Procs, k \in Keys, result \in {"got_it", "study_more"},
        skew \in 0..MaxSkew :
       BeginGrade(p, k[1], k[2], result, skew, 1)
  \/ \E p \in Procs, k \in Keys, b \in BOOLEAN :
       BeginBookmark(p, k[1], k[2], b)
  \/ \E p \in Procs : Flush(p)

SpecConc == Init /\ [][NextConc]_vars

\* two grading requests in flight together, for any two of three keys of
\* two users; the records are created by bookmarks and the clock stands
\* still
FrameProcs == {1, 2}

NextFrame ==
  \/ \E p \in FrameProcs, k \in DueKeys, result \in {"got_it", "study_more"} :
       BeginGrade(p, k[1], k[2], result, 0, 0)
  \/ \E p \in FrameProcs : Flush(p)
  \/ \E k \in DueKeys : UpdateBookmark(k[1], k[2], TRUE)

SpecFrame == Init /\ [][NextFrame]_vars

----------------------------------------------------------------------------
(* GET /due-for-review.  Every instrument_id of the table is the id of an  *)
(* instrument, so the join drops no row.                                    *)

\* variant: the rows of every user
Due_AnyUser(rows, u, t) ==
  {r \in BagToSet(rows) : IF r.next_review_at = None THEN FALSE
                          ELSE r.next_review_at[1] <= t}

\* variant: a record is due only after its next_review_at
Due_Late(rows, u, t) ==
  {r \in BagToSet(rows) : /\ r.user_id = u
                          /\ IF r.next_review_at = None THEN FALSE
                             ELSE r.next_review_at[1] < t}

\* .where(user_id == user_id).where(next_review_at <= now): the comparison
\* of a NULL next_review_at is not true, so such a row is not selected
Due(rows, u, t) ==
  {r \in BagToSet(rows) : /\ r.user_id = u
                          /\ IF r.next_review_at = None THEN FALSE
                             ELSE r.next_review_at[1] <= t}

\* .order_by(next_review_at): the orders the database may return the rows
\* in; the order of rows with equal next_review_at is not determined
OrderBy(S) ==
  {q \in [1..Cardinality(S) -> S] :
     /\ \A a, b \in DOMAIN q : a # b => q[a] # q[b]
     /\ \A a, b \in DOMAIN q :
          a < b => q[a].next_review_at[1] <= q[b].next_review_at[1]}

\* .limit(limit)
Limit(q, limit) == SubSeq(q, 1, IF limit < Len(q) THEN limit ELSE Len(q))

GetDueForReview(u, limit) ==
  /\ \E q \in OrderBy(Due(progress, u, now)) :
       last' = [op |-> "due", user_id |-> u, limit |-> limit,
                rows |-> Limit(q, limit)]
  /\ UNCHANGED <<progress, now, otherVars>>

\* two users, three keys, the query at any moment; the answers are correct
\* and the clock moves between the requests only
NextDue ==
  \/ \E k \in DueKeys :
       RecordFlashcardResult(k[1], k[2], "got_it", 0, MaxDueAttempts, MaxDueTicks)
  \/ \E k \in DueKeys : UpdateBookmark(k[1], k[2], TRUE)
  \/ Tick(MaxDueTicks)
  \/ \E u \in {"u1", "u2"}, limit \in 1..MaxLimit : GetDueForReview(u, limit)

SpecDue == Init /\ [][NextDue]_vars

----------------------------------------------------------------------------
(* Quiz sessions: start_quiz, submit_answer, complete_quiz.                 *)

\* Settings.FREE_TIER_DAILY_QUIZZES
FREE_TIER_DAILY_QUIZZES == 3

\* a str is a sequence of one-character strings
UpperCase == <<"A", "K", "M", "O", "Y">>
LowerCase == <<"a", "k", "m", "o", "y">>

\* str.lower(), character by character
Lower(c) ==
  IF \E n \in DOMAIN UpperCase : UpperCase[n] = c
  THEN LowerCase[CHOOSE n \in DOMAIN UpperCase : UpperCase[n] = c]
  ELSE c

StrLower(s) == [n \in DOMAIN s |-> Lower(s[n])]

\* str.strip(): leading and trailing whitespace removed
RECURSIVE LStrip(_)
LStrip(s) == IF s # <<>> /\ Head(s) = " " THEN LStrip(Tail(s)) ELSE s

RECURSIVE RStrip(_)
RStrip(s) ==
  IF s # <<>> /\ s[Len(s)] = " " THEN RStrip(SubSeq(s, 1, Len(s) - 1)) ELSE s

Strip(s) == RStrip(LStrip(s))

\* rows of instruments, in the order a SELECT lists them: four in one
\* category, one in another
InstrumentRows ==
  << [id |-> "i1", name |-> <<"M", "a", "y", "o">>, category |-> "cutting"],
     [id |-> "i2", name |-> <<"K", "o", "o">>, category |-> "cutting"],
     [id |-> "i3", name |-> <<"A", "y">>, category |-> "cutting"],
     [id |-> "i4", name |-> <<"O", "m">>, category |-> "cutting"],
     [id |-> "i5", name |-> <<"K", "a", "y">>, category |-> "clamping"] >>

\* the answers a client sends, each with its time_taken_seconds
Submissions ==
  { [answer |-> <<" ", "m", "A", "Y", "O", " ">>, time_taken_seconds |-> Some(2)],
    [answer |-> <<"M", "a", "y", " ", "o">>, time_taken_seconds |-> Some(2)],
    [answer |-> <<"K", "o", "o">>, time_taken_seconds |-> None] }

\* datetime.now(timezone.utc).replace(hour=0, minute=0, second=0, microsecond=0)
TodayStart(t) == (t \div Day) * Day

\* count(QuizSession.id) of the user's sessions started today
QuizCount(sessions, u, t) ==
  Cardinality({n \in DOMAIN sessions : /\ sessions[n].user_id = u
                                       /\ sessions[n].started_at >= TodayStart(t)})

\* variant: only the sessions still in progress count
CheckQuizLimit_OpenOnly(userRows, sessions, u, t) ==
  IF SelectUser(userRows, u) = {} THEN 404
  ELSE IF (CHOOSE x \in SelectUser(userRows, u) : TRUE).subscription_tier = "premium"
  THEN 200
  ELSE IF Cardinality({n \in DOMAIN sessions :
                         /\ sessions[n].user_id = u
                         /\ sessions[n].started_at >= TodayStart(t)
                         /\ sessions[n].status = "in_progress"})
          >= FREE_TIER_DAILY_QUIZZES
  THEN 403
  ELSE 200

\* check_quiz_limit: the status it raises, 200 when it returns
CheckQuizLimit(userRows, sessions, u, t) ==
  IF SelectUser(userRows, u) = {} THEN 404
  ELSE IF (CHOOSE x \in SelectUser(userRows, u) : TRUE).subscription_tier = "premium"
  THEN 200
  ELSE IF QuizCount(sessions, u, t) >= FREE_TIER_DAILY_QUIZZES THEN 403
  ELSE 200

\* list(result.scalars().all()) of generate_questions: the instruments a
\* quiz draws from; category None selects all
RECURSIVE QuizInstruments(_, _)
QuizInstruments(rows, category) ==
  IF rows = <<>> THEN <<>>
  ELSE IF category = None \/ Head(rows).category = category[1]
  THEN <<Head(rows)>> \o QuizInstruments(Tail(rows), category)
  ELSE QuizInstruments(Tail(rows), category)

\* random.shuffle(instruments): of the orders it may leave the list in, the
\* order listed and its reverse
Shuffles(q) == {q, [n \in DOMAIN q |-> q[Len(q) + 1 - n]]}

\* generate_questions on the shuffled instruments: one question for each of
\* the first min(count, len) instruments.  sid stands for the fresh uuids:
\* question n of the session is <<sid, n>>.  The options of a
\* multiple-choice question are sent to the client and not read again.
GenerateQuestions(quiz_type, shuffled, count, sid) ==
  LET len == IF count < Len(shuffled) THEN count ELSE Len(shuffled)
  IN  [n \in 1..len |->
        [ id |-> <<sid, n>>,
          question_type |-> IF quiz_type = "flashcard" THEN "flashcard"
                            ELSE "image_to_name",
          instrument_id |-> shuffled[n].id,
          correct_answer |-> shuffled[n].name ]]

\* the row the INSERT of start_quiz stores
NewQuizSession(sid, u, quiz_type, category, questions, t) ==
  [ id |-> sid, user_id |-> u, quiz_type |-> quiz_type,
    category_filter |-> category, question_count |-> Len(questions),
    score |-> None, total_questions |-> None, time_spent_seconds |-> None,
    status |-> "in_progress", questions |-> questions, answers |-> <<>>,
    started_at |-> t, completed_at |-> None ]

\* POST /start.  The limit check reads the clock at now, the INSERT stamps
\* started_at at now + skew.
StartQuiz(u, quiz_type, category, count, shuffled, skew, maxSessions, maxNow) ==
  /\ now + skew <= maxNow
  /\ LET limit == CheckQuizLimit(users, quiz_sessions, u, now)
         sid == Len(quiz_sessions) + 1
     IN  IF limit # 200
         THEN /\ last' = [op |-> "start", user_id |-> u, status |-> limit]
              /\ UNCHANGED <<quiz_sessions, now>>
         ELSE IF Len(shuffled) < 4
         THEN /\ last' = [op |-> "start", user_id |-> u, status |-> 400]
              /\ UNCHANGED <<quiz_sessions, now>>
         ELSE /\ Len(quiz_sessions) < maxSessions
              /\ quiz_sessions' =
                   Append(quiz_sessions,
                          NewQuizSession(sid, u, quiz_type, category,
                                         GenerateQuestions(quiz_type, shuffled,
                                                           count, sid),
                                         now + skew))
              /\ last' = [op |-> "start", user_id |-> u, status |-> 200]
              /\ now' = now + skew
  /\ UNCHANGED <<progress, txn, users, cards>>

\* variant: the session is looked up by its id alone
SelectSession_AnyUser(sessions, sid, u) ==
  {n \in DOMAIN sessions : sessions[n].id = sid}

\* select(QuizSession).where(id == session_id).where(user_id == user_id)
SelectSession(sessions, sid, u) ==
  {n \in DOMAIN sessions : sessions[n].id = sid /\ sessions[n].user_id = u}

\* variant: a session accepts answers whatever its status
SessionActive_Always(session) == TRUE

\* line 168: session.status == "in_progress"
SessionActive(session) == session.status = "in_progress"

\* POST /{session_id}/answer.  session.answers is a plain JSON attribute:
\* "session.answers or []" is a new list only while the stored list is
\* empty; a non-empty list is appended to in place and assigned back to
\* the attribute as the same object, which the flush compares equal to the
\* loaded value, so the UPDATE leaves the answers column out.
SubmitAnswer(u, sid, qid, answer, time_taken, skew, maxAttempts, maxNow) ==
  /\ TotalStudied(progress) < maxAttempts
  /\ now + skew <= maxNow
  /\ LET found == SelectSession(quiz_sessions, sid, u)
         req == [op |-> "answer", user_id |-> u, session_id |-> sid,
                 question_id |-> qid, answer |-> answer, is_correct |-> FALSE,
                 status |-> 0]
         rejected(code) ==
           /\ last' = [req EXCEPT !.status = code]
           /\ UNCHANGED <<quiz_sessions, progress, now>>
     IN  IF found = {} THEN rejected(404)
         ELSE LET n == CHOOSE x \in found : TRUE
                  session == quiz_sessions[n]
                  asked == {m \in DOMAIN session.questions :
                              session.questions[m].id = qid}
              IN  IF ~SessionActive(session) THEN rejected(400)
                  ELSE IF asked = {} THEN rejected(404)
                  ELSE LET question == session.questions[CHOOSE m \in asked : TRUE]
                           is_correct == Strip(StrLower(answer)) =
                                           Strip(StrLower(question.correct_answer))
                           entry == [question_id |-> qid, answer |-> answer,
                                     is_correct |-> is_correct,
                                     time_taken |-> time_taken]
                           res == UpdateProgress(progress, u, question.instrument_id,
                                                 is_correct, now, now + skew)
                       IN  IF res.raised # "no" THEN rejected(500)
                           ELSE /\ quiz_sessions' =
                                     [quiz_sessions EXCEPT ![n].answers =
                                        IF session.answers = <<>> THEN <<entry>>
                                        ELSE session.answers]
                                /\ progress' = res.rows
                                /\ now' = now + skew
                                /\ last' = [req EXCEPT !.status = 200,
                                                       !.is_correct = is_correct]
  /\ UNCHANGED <<txn, users, cards>>

\* sum(1 for a in answers if a.get("is_correct"))
RECURSIVE CorrectCount(_)
CorrectCount(answers) ==
  IF answers = <<>> THEN 0
  ELSE (IF Head(answers).is_correct THEN 1 ELSE 0) + CorrectCount(Tail(answers))

\* sum(a.get("time_taken", 0) or 0 for a in answers)
RECURSIVE TotalTime(_)
TotalTime(answers) ==
  IF answers = <<>> THEN 0
  ELSE (IF Head(answers).time_taken = None THEN 0 ELSE Head(answers).time_taken[1])
       + TotalTime(Tail(answers))

\* POST /{session_id}/complete
CompleteQuiz(u, sid) ==
  /\ LET found == SelectSession(quiz_sessions, sid, u)
         req == [op |-> "complete", user_id |-> u, session_id |-> sid,
                 status |-> 0]
     IN  IF found = {}
         THEN /\ last' = [req EXCEPT !.status = 404]
              /\ UNCHANGED quiz_sessions
         ELSE LET n == CHOOSE x \in found : TRUE
                  answers == quiz_sessions[n].answers
              IN  /\ quiz_sessions' =
                       [quiz_sessions EXCEPT
                          ![n].status = "completed",
                          ![n].score = Some(CorrectCount(answers)),
                          ![n].total_questions = Some(Len(answers)),
                          ![n].time_spent_seconds = Some(TotalTime(answers)),
                          ![n].completed_at = Some(now)]
                  /\ last' = [req EXCEPT !.status = 200]
  /\ UNCHANGED <<progress, now, txn, users, cards>>

\* the session ids and question ids a client may send: the sessions stored
\* and one that does not exist, and the first question of each
SessionIds == 1..(Len(quiz_sessions) + 1)
QuestionIds == {<<s, 1>> : s \in SessionIds}

\* the quota of the day: sessions are started over two days and the one
\* started last is completed; the clock moves between the requests only
NextQuota ==
  \/ \E u \in {"u1", "u2"}, category \in {None, Some("clamping")} :
       \E shuffled \in {QuizInstruments(InstrumentRows, category)} :
         StartQuiz(u, "flashcard", category, 5, shuffled, 0, MaxStarts,
                   MaxTicks)
  \/ \E sid \in {Len(quiz_sessions)} \ {0} :
       CompleteQuiz(quiz_sessions[sid].user_id, sid)
  \/ Tick(MaxTicks)

SpecQuota == Init /\ [][NextQuota]_vars

\* two users, a few sessions, answered and completed within two ticks; the
\* clock moves between the requests only
NextQuiz ==
  \/ \E u \in {"u1", "u2"} :
       \E shuffled \in Shuffles(QuizInstruments(InstrumentRows, None)) :
         StartQuiz(u, "multiple_choice", None, 5, shuffled, 0, MaxQuizzes, 1)
  \/ \E u \in {"u1", "u2"}, sid \in SessionIds, qid \in QuestionIds,
        data \in Submissions :
       SubmitAnswer(u, sid, qid, data.answer, data.time_taken_seconds, 0,
                    MaxAnswers, 1)
  \/ \E u \in {"u1", "u2"}, sid \in SessionIds : CompleteQuiz(u, sid)
  \/ UpdateBookmark("u1", "i1", TRUE)
  \/ Tick(1)

SpecQuiz == Init /\ [][NextQuiz]_vars

----------------------------------------------------------------------------
(* Preference cards: create_card, duplicate_card, delete_card.  A card is  *)
(* its id, its owner and its flags; title, notes and items are left out.    *)

\* Settings.FREE_TIER_CARDS_LIMIT
FREE_TIER_CARDS_LIMIT == 5

\* count(PreferenceCard.id) of the user's cards that are not templates
CardCount(rows, u) ==
  Cardinality({c \in rows : c.user_id = Some(u) /\ ~c.is_template})

\* variant: the limit is compared with >
CheckCardLimit_OneMore(userRows, rows, u) ==
  IF SelectUser(userRows, u) = {} THEN 404
  ELSE IF (CHOOSE x \in SelectUser(userRows, u) : TRUE).subscription_tier = "premium"
  THEN 200
  ELSE IF CardCount(rows, u) > FREE_TIER_CARDS_LIMIT THEN 403
  ELSE 200

\* check_card_limit: the status it raises, 200 when it returns
CheckCardLimit(userRows, rows, u) ==
  IF SelectUser(userRows, u) = {} THEN 404
  ELSE IF (CHOOSE x \in SelectUser(userRows, u) : TRUE).subscription_tier = "premium"
  THEN 200
  ELSE IF CardCount(rows, u) >= FREE_TIER_CARDS_LIMIT THEN 403
  ELSE 200

\* the id of a new card: it stands for a fresh uuid; the id of a deleted
\* card is free again, nothing refers to it
NewCardId(rows) ==
  CHOOSE n \in 1..(Cardinality(rows) + 1) : \A c \in rows : c.id # n

\* the row the INSERT of PreferenceCard(user_id=user_id, ...) stores
NewCard(rows, u) ==
  [id |-> NewCardId(rows), user_id |-> Some(u), is_template |-> FALSE,
   is_public |-> FALSE]

\* POST /cards
CreateCard(u, maxCards) ==
  /\ LET limit == CheckCardLimit(users, cards, u)
         req == [op |-> "create", user_id |-> u, card_id |-> 0, status |-> 0]
     IN  IF limit # 200
         THEN /\ last' = [req EXCEPT !.status = limit]
              /\ UNCHANGED cards
         ELSE /\ Cardinality(cards) < maxCards
              /\ cards' = cards \cup {NewCard(cards, u)}
              /\ last' = [req EXCEPT !.status = 201]
  /\ UNCHANGED <<progress, now, txn, users, quiz_sessions>>

\* POST /cards/{card_id}/duplicate
DuplicateCard(u, card_id, maxCards) ==
  /\ LET limit == CheckCardLimit(users, cards, u)
         found == {c \in cards : c.id = card_id}
         req == [op |-> "duplicate", user_id |-> u, card_id |-> card_id,
                 status |-> 0]
         rejected(code) == /\ last' = [req EXCEPT !.status = code]
                           /\ UNCHANGED cards
     IN  IF limit # 200 THEN rejected(limit)
         ELSE IF found = {} THEN rejected(404)
         ELSE LET original == CHOOSE c \in found : TRUE
              IN  IF /\ original.user_id # Some(u)
                     /\ ~(original.is_template /\ original.is_public)
                  THEN rejected(403)
                  ELSE /\ Cardinality(cards) < maxCards
                       /\ cards' = cards \cup {NewCard(cards, u)}
                       /\ last' = [req EXCEPT !.status = 200]
  /\ UNCHANGED <<progress, now, txn, users, quiz_sessions>>

\* DELETE /cards/{card_id}
DeleteCard(u, card_id) ==
  /\ LET found == {c \in cards : c.id = card_id /\ c.user_id = Some(u)}
         req == [op |-> "delete", user_id |-> u, card_id |-> card_id,
                 status |-> 0]
     IN  IF found = {}
         THEN /\ last' = [req EXCEPT !.status = 404]
              /\ UNCHANGED cards
         ELSE /\ cards' = cards \ found
              /\ last' = [req EXCEPT !.status = 204]
  /\ UNCHANGED <<progress, now, txn, users, quiz_sessions>>

\* the card ids a client may send: the cards stored and one that is not
CardIds == {c.id : c \in cards} \cup {NewCardId(cards)}

\* a free and a premium user create, duplicate and delete cards
NextCards ==
  \/ \E u \in {"u1", "u2"} : CreateCard(u, MaxCards)
  \/ \E u \in {"u1", "u2"}, card_id \in CardIds : DuplicateCard(u, card_id, MaxCards)
  \/ \E u \in {"u1", "u2"}, card_id \in CardIds : DeleteCard(u, card_id)

SpecCards == Init /\ [][NextCards]_vars

\* one user and one session of a quiz in the listed order: its first two
\* questions are answered any number of times, before and after the session
\* is completed; the clock stands still.  The other user sends the same
\* requests.
AskedIds == {<<s, n>> : s \in 1..Len(quiz_sessions), n \in 1..2}

NextSession ==
  \/ StartQuiz("u1", "multiple_choice", None, 5,
               QuizInstruments(InstrumentRows, None), 0, 1, 0)
  \/ \E u \in {"u1", "u2"}, qid \in AskedIds, data \in Submissions :
       SubmitAnswer(u, qid[1], qid, data.answer, data.time_taken_seconds, 0,
                    MaxSessionAnswers, 0)
  \/ \E sid \in 1..Len(quiz_sessions) : CompleteQuiz("u1", sid)
  \/ \E i \in {"i1", "i2"} : UpdateBookmark("u1", i, TRUE)
  \/ RecordFlashcardResult("u1", "i1", "got_it", 0, MaxSessionAnswers, 0)

SpecSession == Init /\ [][NextSession]_vars

----------------------------------------------------------------------------
(* DELETE /users/me.  The relationships of User cascade "all,               *)
(* delete-orphan": the flush deletes the user's preference cards, quiz      *)
(* sessions and progress records before the user row.                       *)

\* the table without the rows of user u
WithoutUser(rows, u) ==
  [r \in {x \in BagToSet(rows) : x.user_id # u} |-> rows[r]]

RECURSIVE SessionsWithoutUser(_, _)
SessionsWithoutUser(sessions, u) ==
  IF sessions = <<>> THEN <<>>
  ELSE IF Head(sessions).user_id = u THEN SessionsWithoutUser(Tail(sessions), u)
  ELSE <<Head(sessions)>> \o SessionsWithoutUser(Tail(sessions), u)

\* variant: the user row is deleted alone
DeleteAccount_NoCascade(u) ==
  /\ IF SelectUser(users, u) = {}
     THEN /\ last' = [op |-> "delete_account", user_id |-> u, status |-> 404]
          /\ UNCHANGED users
     ELSE /\ users' = users \ SelectUser(users, u)
          /\ last' = [op |-> "delete_account", user_id |-> u, status |-> 200]
  /\ UNCHANGED <<progress, quiz_sessions, cards, now, txn>>

DeleteAccount(u) ==
  /\ IF SelectUser(users, u) = {}
     THEN /\ last' = [op |-> "delete_account", user_id |-> u, status |-> 404]
          /\ UNCHANGED <<users, progress, quiz_sessions, cards>>
     ELSE /\ users' = users \ SelectUser(users, u)
          /\ progress' = WithoutUser(progress, u)
          /\ quiz_sessions' = SessionsWithoutUser(quiz_sessions, u)
          /\ cards' = {c \in cards : c.user_id # Some(u)}
          /\ last' = [op |-> "delete_account", user_id |-> u, status |-> 200]
  /\ UNCHANGED <<now, txn>>

\* two users study, bookmark, start a quiz and delete their accounts; the
\* requests of a deleted user still arrive; the clock stands still
NextAccount ==
  \/ \E u \in {"u1", "u2"} : DeleteAccount(u)
  \/ \E k \in DueKeys : UpdateBookmark(k[1], k[2], TRUE)
  \/ \E k \in DueKeys, result \in {"got_it", "study_more"} :
       RecordFlashcardResult(k[1], k[2], result, 0, MaxAttempts, 0)
  \/ StartQuiz("u1", "flashcard", None, 5, QuizInstruments(InstrumentRows, None),
               0, MaxQuizzes, 0)
  \/ CreateCard("u1", Cardinality(SeedCards) + 1)

SpecAccount == Init /\ [][NextAccount]_vars

----------------------------------------------------------------------------
(* start_quiz requests in flight together.  check_quiz_limit counts the     *)
(* committed sessions at its await; the INSERT follows at the flush of      *)
(* line 142, after the awaits of generate_questions.  No lock is taken and  *)
(* no constraint of quiz_sessions bounds the sessions of a day.             *)

\* POST /start up to its flush: check_quiz_limit and generate_questions
BeginStartQuiz(p, u) ==
  /\ txn[p].pc = "idle"
  /\ LET limit == CheckQuizLimit(users, quiz_sessions, u, now)
         req == [IdleTxn EXCEPT !.op = "start", !.user_id = u, !.t1 = now]
     IN  txn' = [txn EXCEPT ![p] =
           IF limit # 200 THEN [req EXCEPT !.pc = "done", !.status = "rejected"]
           ELSE [req EXCEPT !.pc = "flushing"]]
  /\ UNCHANGED <<progress, now, last, users, quiz_sessions, cards>>

\* await db.flush() of start_quiz and the commit on return
FlushStartQuiz(p, maxSessions) ==
  /\ txn[p].pc = "flushing"
  /\ txn[p].op = "start"
  /\ Len(quiz_sessions) < maxSessions
  /\ LET sid == Len(quiz_sessions) + 1
         questions == GenerateQuestions("flashcard",
                                        QuizInstruments(InstrumentRows, None),
                                        5, sid)
     IN  quiz_sessions' =
           Append(quiz_sessions,
                  NewQuizSession(sid, txn[p].user_id, "flashcard", None,
                                 questions, now))
  /\ txn' = [txn EXCEPT ![p].pc = "done", ![p].status = "started"]
  /\ UNCHANGED <<progress, now, last, users, cards>>

\* a free and a premium user start quizzes one request after the other,
\* and two requests of the free user are in flight together; the clock
\* stands still
NextStarts ==
  \/ \E u \in {"u1", "u2"} :
       StartQuiz(u, "flashcard", None, 5, QuizInstruments(InstrumentRows, None),
                 0, MaxStarts, 0)
  \/ \E p \in FrameProcs : BeginStartQuiz(p, "u1")
  \/ \E p \in FrameProcs : FlushStartQuiz(p, MaxStarts)

SpecStarts == Init /\ [][NextStarts]_vars

----------------------------------------------------------------------------
(* Properties.                                                              *)

Rows == BagToSet(progress)

\* the step just taken graded key k / graded it with the given outcome
Graded(k) ==
  /\ last.op = "grade" /\ last.status = "recorded"
  /\ last.user_id = k[1] /\ last.instrument_id = k[2]

GradedAs(k, is_correct) == Graded(k) /\ last.is_correct = is_correct

\* the row of key k, for a key that has exactly one
RowOf(rows, k) == CHOOSE r \in SelectProgress(rows, k[1], k[2]) : TRUE

HasRow(rows, k) == SelectProgress(rows, k[1], k[2]) # {}

\* C1: after every call of any sequence of grade calls on the default
\* record, ease_factor >= 1.3.
C1_EaseFloor == \A r \in Rows : ~LessL(r.ease_factor, F1_3)

\* six incorrect answers in a row: 2.5 - 6 * 0.2 is below 1.3, the floor acts
C1_Witness ==
  \E r \in Rows : /\ GradedAs(<<r.user_id, r.instrument_id>>, FALSE)
                 /\ r.times_studied = 6 /\ r.times_correct = 0
                 /\ r.ease_factor = F1_3

\* C2: after every call of any sequence of grade calls on the default
\* record, interval_days >= 1.
C2_IntervalAtLeastOne == \A r \in Rows : r.interval_days >= 1

\* an incorrect answer after a streak of four: the interval falls from 44 to 1
C2_Witness ==
  \E r \in Rows : /\ GradedAs(<<r.user_id, r.instrument_id>>, FALSE)
                 /\ r.times_studied = 5 /\ r.times_correct = 4
                 /\ r.interval_days = 1

\* C3: a correct grade adds exactly 1 to repetitions, an incorrect grade
\* sets it to exactly 0, nothing else changes it, and it is never negative.
C3_RepetitionsStep ==
  [][ /\ \A r \in BagToSet(progress') : r.repetitions >= 0
      /\ \A k \in Keys :
           HasRow(progress, k) =>
             /\ HasRow(progress', k)
             /\ RowOf(progress', k).repetitions =
                  IF GradedAs(k, TRUE)' THEN RowOf(progress, k).repetitions + 1
                  ELSE IF GradedAs(k, FALSE)' THEN 0
                  ELSE RowOf(progress, k).repetitions ]_vars

\* an incorrect answer ended a streak of three
C3_Witness ==
  \E r \in Rows : /\ GradedAs(<<r.user_id, r.instrument_id>>, FALSE)
                 /\ r.times_correct = 3 /\ r.times_studied = 4
                 /\ r.repetitions = 0

\* C4: times_correct <= times_studied after every call.
C4_CorrectAtMostStudied == \A r \in Rows : r.times_correct <= r.times_studied

\* only correct answers so far: the two counters are equal
C4_Witness ==
  \E r \in Rows : /\ GradedAs(<<r.user_id, r.instrument_id>>, TRUE)
                 /\ r.times_studied = 3 /\ r.times_correct = 3

\* C5: after every grade call the stored next_review_at is the stored
\* last_studied_at plus exactly interval_days days.
C5_NextReviewFromLastStudied ==
  \A r \in Rows :
    r.last_studied_at # None =>
      r.next_review_at = Some(r.last_studied_at[1] + r.interval_days * Day)

\* m is the real product n * e with its fractional part dropped
IsTruncatedProduct(m, n, e) ==
  /\ ~LessL(MulSmall(e, n), IntL(m))
  /\ LessL(MulSmall(e, n), IntL(m + 1))

\* C6: on a correct answer the new interval is 1 for a streak of 1, 6 for a
\* streak of 2, and otherwise the previous interval times the ease factor
\* held before this call's +0.1, fraction truncated.
C6_IntervalByStreak ==
  [][ \A k \in Keys :
        (HasRow(progress, k) /\ GradedAs(k, TRUE)') =>
          LET r  == RowOf(progress, k)
              r2 == RowOf(progress', k)
          IN  IF r.repetitions + 1 = 1 THEN r2.interval_days = 1
              ELSE IF r.repetitions + 1 = 2 THEN r2.interval_days = 6
              ELSE IsTruncatedProduct(r2.interval_days, r.interval_days,
                                      r.ease_factor) ]_vars

\* fourth correct answer in a row: 16 * 2.8000000000000003 = 44.8 gives 44
C6_Witness ==
  \E r \in Rows : /\ GradedAs(<<r.user_id, r.instrument_id>>, TRUE)
                 /\ r.repetitions = 4 /\ r.times_studied = 4
                 /\ r.interval_days = 44

C7_F1_4 == <<1536, 1638, 1638, 1638, 1638, 1, 0, 0>>   \* 1.4 = 0x1.6666666666666p+0

\* C7: a correct answer makes ease_factor max(1.3, ease_factor + 0.1) and
\* never lowers it; an incorrect answer makes it max(1.3, ease_factor - 0.2):
\* from 1.4 it gives 1.3, and from 1.3 it stays 1.3.
C7_EaseUpdate ==
  [][ \A k \in Keys :
        (HasRow(progress, k) /\ Graded(k)') =>
          LET e  == RowOf(progress, k).ease_factor
              e2 == RowOf(progress', k).ease_factor
          IN  IF last'.is_correct
              THEN /\ e2 = FMax(F1_3, FAdd(e, F0_1))
                   /\ ~LessL(e2, e)
              ELSE /\ e2 = FMax(F1_3, FSub(e, F0_2))
                   /\ (e = C7_F1_4 => e2 = F1_3)
                   /\ (e = F1_3 => e2 = F1_3) ]_vars

\* one correct and eight incorrect answers: 1.4 after the seventh, 1.3 after
\* the eighth, still 1.3 after the ninth
C7_Witness ==
  \E r \in Rows : /\ GradedAs(<<r.user_id, r.instrument_id>>, FALSE)
                 /\ r.times_studied = 9 /\ r.times_correct = 1
                 /\ r.ease_factor = F1_3

\* C8: after any incorrect answer interval_days is exactly 1 and
\* next_review_at is the grading instant plus 1 day.
C8_IncorrectResets ==
  \A r \in Rows :
    GradedAs(<<r.user_id, r.instrument_id>>, FALSE) =>
      /\ r.interval_days = 1
      /\ r.next_review_at = Some(r.last_studied_at[1] + Day)

C9_F2_6 == <<2560, 2457, 2457, 2457, 2457, 2, 0, 0>>   \* 2.6 = 0x1.4cccccccccccdp+1
C9_F2_7 == <<1024, 819, 819, 819, 2867, 2, 0, 0>>      \* 2.7 = 0x1.599999999999ap+1
C9_F2_8 == <<3072, 3276, 3276, 3276, 3276, 2, 0, 0>>   \* 2.8 = 0x1.6666666666666p+1

\* the record the scenario describes after its n-th answer, given at instant t
C9_After(r, n, t) ==
  /\ r.times_studied = n
  /\ r.times_correct = (IF n = 4 THEN 3 ELSE n)
  /\ r.last_studied_at = Some(t)
  /\ r.repetitions   = (IF n = 4 THEN 0 ELSE n)
  /\ r.interval_days = (IF n = 2 THEN 6 ELSE IF n = 3 THEN 16 ELSE 1)
  /\ r.ease_factor   = (IF n = 2 THEN C9_F2_7 ELSE IF n = 3 THEN C9_F2_8 ELSE C9_F2_6)
  /\ r.next_review_at = Some(t + r.interval_days * Day)

\* C9: from the default record, correct at T, correct at T+1d, correct at
\* T+7d, incorrect at T+23d give in turn (repetitions, interval_days,
\* ease_factor, next_review_at) = (1, 1, 2.6, T+1d), (2, 6, 2.7, T+7d),
\* (3, 16, 2.8, T+23d), (0, 1, 2.6, T+24d), with counters 4 and 3 at the end.
\* Each answer comes interval_days days after the one before (1, 6, 16 days).
C9_Scenario ==
  [][ \A k \in Keys, n \in 1..4 :
        ( /\ HasRow(progress, k)
          /\ GradedAs(k, n # 4)'
          /\ IF n = 1 THEN RowOf(progress, k).times_studied = 0
             ELSE /\ C9_After(RowOf(progress, k), n - 1,
                              RowOf(progress, k).last_studied_at[1])
                  /\ now = ReviewDay(RowOf(progress, k)) )
        => C9_After(RowOf(progress', k), n, now) ]_vars

\* C10: update_bookmark on an existing record changes is_bookmarked and
\* nothing else of the record; a grade call leaves is_bookmarked unchanged.
C10_BookmarkIndependent ==
  [][ \A k \in Keys :
        HasRow(progress, k) =>
          /\ (last'.op = "bookmark" /\ last'.user_id = k[1]
                                    /\ last'.instrument_id = k[2])
               => /\ HasRow(progress', k)
                  /\ RowOf(progress', k) =
                       [RowOf(progress, k) EXCEPT
                          !.is_bookmarked = last'.is_bookmarked]
          /\ Graded(k)' => RowOf(progress', k).is_bookmarked =
                             RowOf(progress, k).is_bookmarked ]_vars

\* the bookmark of a record that has been graded twice is taken off again
C10_Witness ==
  \E r \in Rows : /\ last.op = "bookmark" /\ ~last.is_bookmarked
                 /\ last.user_id = r.user_id
                 /\ last.instrument_id = r.instrument_id
                 /\ r.times_studied = 2 /\ r.next_review_at # None
                 /\ ~r.is_bookmarked

\* the requests in flight have all finished
Finished == \A p \in Procs : txn[p].pc # "flushing"

\* the grading requests for key k that succeeded
Recorded(k) ==
  {p \in Procs : /\ txn[p].op = "grade" /\ txn[p].status = "recorded"
                 /\ txn[p].user_id = k[1] /\ txn[p].instrument_id = k[2]}

\* C11: for any interleaving of grading requests for one key no update is
\* lost: when all requests have finished, times_studied is the number of
\* requests that succeeded and times_correct the number of those that were
\* correct.
C11_NoLostUpdate ==
  Finished =>
    \A k \in Keys :
      HasRow(progress, k) =>
        /\ RowOf(progress, k).times_studied = Cardinality(Recorded(k))
        /\ RowOf(progress, k).times_correct =
             Cardinality({p \in Recorded(k) : txn[p].arg})

\* C12: at every moment the table holds at most one row per
\* (user_id, instrument_id), for any interleaving of grade and bookmark
\* requests, two first requests for one pair included.
C12_OneRecordPerKey ==
  \A r \in Rows :
    /\ CopiesIn(r, progress) = 1
    /\ \A q \in Rows :
         q.user_id = r.user_id /\ q.instrument_id = r.instrument_id => q = r

\* two first bookmark requests for one pair, both past their SELECT before
\* either flush: one INSERT is stored, the other is refused by the index
C12_Witness ==
  \E p, q \in Procs :
    /\ txn[p].op = "bookmark" /\ txn[q].op = "bookmark"
    /\ txn[p].user_id = txn[q].user_id
    /\ txn[p].instrument_id = txn[q].instrument_id
    /\ txn[p].found = None /\ txn[q].found = None
    /\ txn[p].status = "updated" /\ txn[q].status = "error"
    /\ Cardinality(SelectProgress(progress, txn[p].user_id,
                                  txn[p].instrument_id)) = 1

\* C13: grade is deterministic: two applications to the same starting
\* record with the same outcome and the same grading instant, with nothing
\* persisted between them, produce records equal in every field.
C13_GradeDeterministic ==
  \A p, q \in Procs :
    /\ txn[p].op = "grade" /\ txn[q].op = "grade"
    /\ txn[p].found # None /\ txn[p].found = txn[q].found
    /\ txn[p].arg = txn[q].arg
    /\ txn[p].t1 = txn[q].t1
    => txn[p].computed = txn[q].computed

\* C14: the first graded attempt for a pair that has no record succeeds,
\* creates exactly one record and grades it from the defaults: afterwards
\* times_studied = 1, and a correct first answer leaves repetitions 1,
\* interval_days 1, ease_factor 2.6 and times_correct 1.
C14_FirstGradeCreates ==
  [][ last'.op = "grade" /\ ~HasRow(progress, <<last'.user_id, last'.instrument_id>>)
      => LET k == <<last'.user_id, last'.instrument_id>>
         IN  /\ last'.status = "recorded"
             /\ ScalarOneOrNone(progress', k[1], k[2]) = "one"
             /\ RowOf(progress', k).times_studied = 1
             /\ last'.is_correct =>
                  /\ RowOf(progress', k).repetitions = 1
                  /\ RowOf(progress', k).interval_days = 1
                  /\ RowOf(progress', k).ease_factor = FAdd(F2_5, F0_1)
                  /\ RowOf(progress', k).times_correct = 1 ]_vars

\* C15: the review-due query for user U at instant now returns only records
\* owned by U whose next_review_at is set and <= now, in ascending
\* next_review_at order, and up to the limit it omits no such record that
\* comes earlier in that order.
C15_DueQuery ==
  last.op = "due" =>
    LET q == last.rows
        returned == {q[a] : a \in DOMAIN q}
        due == {r \in Rows : /\ r.user_id = last.user_id
                             /\ r.next_review_at # None
                             /\ r.next_review_at[1] <= now}
    IN  /\ returned \subseteq due
        /\ \A a, b \in DOMAIN q :
             a < b => /\ q[a] # q[b]
                      /\ q[a].next_review_at[1] <= q[b].next_review_at[1]
        /\ Len(q) <= last.limit
        /\ Len(q) < last.limit => returned = due
        /\ \A r \in due \ returned :
             \A a \in DOMAIN q : q[a].next_review_at[1] <= r.next_review_at[1]

\* user u1 has two records due at different instants and asks for one;
\* user u2 has a due record as well: the earlier of u1's two is returned
C15_Witness ==
  /\ last.op = "due" /\ last.user_id = "u1" /\ last.limit = 1
  /\ Len(last.rows) = 1
  /\ \E r \in Rows : /\ r.user_id = "u1" /\ r.next_review_at # None
                     /\ r.next_review_at[1] <= now
                     /\ r.next_review_at[1] > last.rows[1].next_review_at[1]
  /\ \E r \in Rows : /\ r.user_id = "u2" /\ r.next_review_at # None
                     /\ r.next_review_at[1] <= now

\* C16: for every record, next_review_at is absent exactly while the record
\* has never been graded (times_studied = 0); once populated it stays
\* populated through every later grade or bookmark operation.
C16_ScheduledIffStudied ==
  [][ /\ \A r \in BagToSet(progress') :
           (r.next_review_at = None) <=> (r.times_studied = 0)
      /\ \A k \in Keys :
           (HasRow(progress, k) /\ RowOf(progress, k).next_review_at # None)
           => /\ HasRow(progress', k)
              /\ RowOf(progress', k).next_review_at # None ]_vars

\* a graded record is bookmarked and keeps its next review, while a record
\* created by a bookmark alone has none
C16_Witness ==
  /\ last.op = "bookmark" /\ last.status = "updated"
  /\ \E r \in Rows : /\ r.user_id = last.user_id
                     /\ r.instrument_id = last.instrument_id
                     /\ r.times_studied >= 1 /\ r.next_review_at # None
  /\ \E r \in Rows : r.times_studied = 0 /\ r.next_review_at = None

\* the user's sessions started in the UTC day of instant t
StartedToday(u, t) ==
  {n \in DOMAIN quiz_sessions : /\ quiz_sessions[n].user_id = u
                                /\ quiz_sessions[n].started_at >= (t \div Day) * Day}

\* C17: for a free user start_quiz succeeds only while fewer than 3 of the
\* user's sessions were started in the current UTC day, completed or not;
\* the next start is rejected with an error and creates no session; a
\* premium user's start is never rejected by this limit.
C17_DailyQuizLimit ==
  [][ last'.op = "start" =>
        LET u == last'.user_id
            tier == (CHOOSE x \in users : x.id = u).subscription_tier
            started == Cardinality(StartedToday(u, now))
        IN  /\ last'.status = 200 => Len(quiz_sessions') = Len(quiz_sessions) + 1
            /\ IF tier = "free"
               THEN /\ last'.status = 200 => started < 3
                    /\ started >= 3 => /\ last'.status = 403
                                       /\ quiz_sessions' = quiz_sessions
               ELSE last'.status # 403 ]_vars

\* the free user has started three sessions today, one of them completed
\* and one still in progress, and the fourth start has just been rejected
C17_Witness ==
  /\ last.op = "start" /\ last.user_id = "u1" /\ last.status = 403
  /\ Cardinality(StartedToday("u1", now)) = 3
  /\ \E n \in StartedToday("u1", now) : quiz_sessions[n].status = "completed"
  /\ \E n \in StartedToday("u1", now) : quiz_sessions[n].status = "in_progress"

\* C18: completing a quiz session whose status is already completed fails
\* with an error (400 or 409) and leaves the session's status, score,
\* total_questions, time_spent_seconds and completed_at unchanged.
C18_CompleteOnce ==
  [][ /\ last'.op = "complete"
      /\ \E n \in DOMAIN quiz_sessions :
           /\ quiz_sessions[n].id = last'.session_id
           /\ quiz_sessions[n].user_id = last'.user_id
           /\ quiz_sessions[n].status = "completed"
      => /\ last'.status \in {400, 409}
         /\ quiz_sessions' = quiz_sessions ]_vars

\* what an answer request refers to, in the state before it is handled
NoSuchSession(sid) ==
  \A n \in DOMAIN quiz_sessions : quiz_sessions[n].id # sid

OthersSession(sid, u) ==
  \E n \in DOMAIN quiz_sessions :
    quiz_sessions[n].id = sid /\ quiz_sessions[n].user_id # u

UnknownQuestion(sid, u, qid, statuses) ==
  \E n \in DOMAIN quiz_sessions :
    /\ quiz_sessions[n].id = sid /\ quiz_sessions[n].user_id = u
    /\ quiz_sessions[n].status \in statuses
    /\ \A m \in DOMAIN quiz_sessions[n].questions :
         quiz_sessions[n].questions[m].id # qid

\* C19 as stated: submit_answer for a session id that does not exist, that
\* belongs to another user, or with a question id not in the session is
\* rejected with 404 (403 also for another user's session) and changes
\* neither the session's answers nor any progress record.
C19_AsStated ==
  [][ /\ last'.op = "answer"
      /\ \/ NoSuchSession(last'.session_id)
         \/ OthersSession(last'.session_id, last'.user_id)
         \/ UnknownQuestion(last'.session_id, last'.user_id,
                            last'.question_id, {"in_progress", "completed"})
      => /\ \/ last'.status = 404
            \/ /\ last'.status = 403
               /\ OthersSession(last'.session_id, last'.user_id)
         /\ quiz_sessions' = quiz_sessions
         /\ progress' = progress ]_vars

\* C19: submit_answer for a session id that does not exist, that belongs to
\* another user, or, on the user's own session in progress, with a question
\* id not in the session is rejected with 404 (403 also for another user's
\* session) and changes neither the session's answers nor any progress
\* record.
C19_RejectedUnchanged ==
  [][ /\ last'.op = "answer"
      /\ \/ NoSuchSession(last'.session_id)
         \/ OthersSession(last'.session_id, last'.user_id)
         \/ UnknownQuestion(last'.session_id, last'.user_id,
                            last'.question_id, {"in_progress"})
      => /\ \/ last'.status = 404
            \/ /\ last'.status = 403
               /\ OthersSession(last'.session_id, last'.user_id)
         /\ quiz_sessions' = quiz_sessions
         /\ progress' = progress ]_vars

\* user u1 has just been refused an answer to a question of user u2's
\* session in progress, about an instrument u1 has a progress record for
C19_Witness ==
  /\ last.op = "answer" /\ last.status = 404 /\ last.user_id = "u1"
  /\ \E n \in DOMAIN quiz_sessions :
       /\ quiz_sessions[n].id = last.session_id
       /\ quiz_sessions[n].user_id = "u2"
       /\ quiz_sessions[n].status = "in_progress"
       /\ quiz_sessions[n].answers = <<>>
       /\ \E m \in DOMAIN quiz_sessions[n].questions :
            /\ quiz_sessions[n].questions[m].id = last.question_id
            /\ HasRow(progress, <<"u1", quiz_sessions[n].questions[m].instrument_id>>)

\* the non-template cards user u owns
OwnCards(rows, u) == {c \in rows : c.user_id = Some(u) /\ ~c.is_template}

\* C20: for a user on the free tier, after any sequence of create_card,
\* duplicate_card and delete_card requests the number of non-template cards
\* the user owns never exceeds 5; a create or duplicate at the limit is
\* rejected (402 or 403) and adds no card; a premium user is never rejected
\* by this limit.
C20_CardLimit ==
  [][ /\ \A x \in users :
           x.subscription_tier = "free" => Cardinality(OwnCards(cards', x.id)) <= 5
      /\ last'.op \in {"create", "duplicate"} =>
           LET u == last'.user_id
               tier == (CHOOSE x \in users : x.id = u).subscription_tier
               owned == Cardinality(OwnCards(cards, u))
               denied == \E c \in cards :
                           /\ c.id = last'.card_id /\ c.user_id # Some(u)
                           /\ ~(c.is_template /\ c.is_public)
           IN  IF tier = "free"
               THEN owned >= 5 => last'.status \in {402, 403} /\ cards' = cards
               ELSE last'.status \in {402, 403} =>
                      last'.op = "duplicate" /\ denied ]_vars

\* the free user owns five cards and the copy of the public template, which
\* the user may read, has just been refused
C20_Witness ==
  /\ last.op = "duplicate" /\ last.user_id = "u1" /\ last.status = 403
  /\ \E c \in cards : c.id = last.card_id /\ c.is_template /\ c.is_public
  /\ Cardinality(OwnCards(cards, "u1")) = 5

\* the data-model bounds of a progress record
WithinBounds(r) ==
  /\ ~LessL(r.ease_factor, F1_3)
  /\ r.interval_days >= 1
  /\ r.repetitions >= 0
  /\ r.times_correct <= r.times_studied

\* C21: a grade call on a record within the data-model bounds is accepted,
\* whichever the outcome, and stores a different record that is within the
\* bounds again.
C21_GradeTotal ==
  [][ \A k \in Keys :
        (/\ last'.op = "grade"
         /\ <<last'.user_id, last'.instrument_id>> = k
         /\ HasRow(progress, k)
         /\ WithinBounds(RowOf(progress, k)))
        => /\ last'.status = "recorded"
           /\ HasRow(progress', k)
           /\ WithinBounds(RowOf(progress', k))
           /\ RowOf(progress', k) # RowOf(progress, k) ]_vars

\* the rows of key k and the stored session sid, read directly
RowsOfKey(rows, k) ==
  {r \in BagToSet(rows) : r.user_id = k[1] /\ r.instrument_id = k[2]}

\* the session a request of user u for session sid is about
SessionOf(sessions, sid, u) ==
  sessions[CHOOSE n \in DOMAIN sessions :
             sessions[n].id = sid /\ sessions[n].user_id = u]

QuestionOf(session, qid) ==
  session.questions[CHOOSE m \in DOMAIN session.questions :
                      session.questions[m].id = qid]

\* C22: each successful grading request applies exactly one grade step to
\* the record of (requesting user, instrument concerned), times_studied
\* rising by exactly 1.  For submit_answer the outcome is the
\* case-insensitive, whitespace-trimmed equality of the answer and the
\* question's correct answer, and the same value is returned and stored in
\* the answer entry the request adds to the session; for
\* record_flashcard_result the outcome is (result = got_it).
C22_OneGradeStep ==
  [][ /\ (last'.op = "answer" /\ last'.status = 200) =>
          LET session == SessionOf(quiz_sessions, last'.session_id, last'.user_id)
              after == SessionOf(quiz_sessions', last'.session_id, last'.user_id)
              question == QuestionOf(session, last'.question_id)
              k == <<last'.user_id, question.instrument_id>>
              old == CHOOSE r \in RowsOfKey(progress, k) : TRUE
              is_correct == Strip(StrLower(last'.answer))
                              = Strip(StrLower(question.correct_answer))
          IN  /\ last'.is_correct = is_correct
              /\ RowsOfKey(progress', k) = {Grade(old, is_correct, now, now')}
              /\ Grade(old, is_correct, now, now').times_studied
                   = old.times_studied + 1
              /\ Len(after.answers) = Len(session.answers) + 1
              /\ after.answers[Len(after.answers)].question_id = last'.question_id
              /\ after.answers[Len(after.answers)].is_correct = is_correct
      /\ (last'.op = "grade" /\ last'.status = "recorded") =>
          LET k == <<last'.user_id, last'.instrument_id>>
              old == CHOOSE r \in RowsOfKey(progress, k) : TRUE
          IN  /\ last'.is_correct = (last'.result = "got_it")
              /\ RowsOfKey(progress', k) = {Grade(old, last'.is_correct, now, now')}
              /\ Grade(old, last'.is_correct, now, now').times_studied
                   = old.times_studied + 1 ]_vars

\* the entries the answers list holds for question qid
EntriesFor(answers, qid) == {m \in DOMAIN answers : answers[m].question_id = qid}

\* C23: within a session a question is answered once: an accepted
\* submit_answer (one grade step) is for a question that has no entry in
\* the answers list yet and that was not graded by the request just before,
\* the list holds at most one entry for each question id, and it never
\* holds more entries than the session has questions.
C23_OncePerQuestion ==
  [][ (last'.op = "answer" /\ last'.status = 200) =>
        LET session == SessionOf(quiz_sessions, last'.session_id, last'.user_id)
            after == SessionOf(quiz_sessions', last'.session_id, last'.user_id)
        IN  /\ EntriesFor(session.answers, last'.question_id) = {}
            /\ ~(/\ last.op = "answer"
                  /\ last.status = 200
                  /\ last.session_id = last'.session_id
                  /\ last.question_id = last'.question_id)
            /\ \A q \in AskedIds : Cardinality(EntriesFor(after.answers, q)) <= 1
            /\ Len(after.answers) <= after.question_count ]_vars

\* the key a request in flight is for
KeyOf(t) == <<t.user_id, t.instrument_id>>

\* the table before any grade: a bookmarked default record for every key
\* that has a record
BeforeGrades(rows) ==
  SetToBag({[NewProgress(k[1], k[2]) EXCEPT !.is_bookmarked = TRUE] :
              k \in {x \in DueKeys : RowsOfKey(rows, x) # {}}})

\* the table after the grade of request a and then the grade of request b,
\* one after the other
Sequential(rows, a, b) ==
  UpdateProgress(UpdateProgress(rows, a.user_id, a.instrument_id, a.arg,
                                a.t1, a.t1).rows,
                 b.user_id, b.instrument_id, b.arg, b.t1, b.t1).rows

BothGraded(a, b) ==
  /\ a.op = "grade" /\ a.status = "recorded"
  /\ b.op = "grade" /\ b.status = "recorded"
  /\ KeyOf(a) # KeyOf(b)

\* C24: a step of a grading request for key (U, A) leaves the records of
\* every other key as they are, and two grading requests for different
\* keys, however their steps interleave, leave the table as both
\* sequential orders leave it.
C24_GradesCommute ==
  [][ /\ \A p \in Procs :
           (txn'[p] # txn[p] /\ txn'[p].op = "grade") =>
             \A r \in BagToSet(progress) \cup BagToSet(progress') :
               <<r.user_id, r.instrument_id>> # KeyOf(txn'[p])
                 => CopiesIn(r, progress') = CopiesIn(r, progress)
      /\ \A p, q \in Procs :
           BothGraded(txn'[p], txn'[q]) =>
             /\ progress' = Sequential(BeforeGrades(progress'), txn'[p], txn'[q])
             /\ progress' = Sequential(BeforeGrades(progress'), txn'[q], txn'[p]) ]_vars

\* two requests of different users are both recorded, one correct and one
\* incorrect, and a third key has an ungraded record
C24_Witness ==
  \E p, q \in Procs :
    /\ BothGraded(txn[p], txn[q])
    /\ txn[p].user_id # txn[q].user_id
    /\ txn[p].arg /\ ~txn[q].arg
    /\ \E k \in DueKeys : \E r \in RowsOfKey(progress, k) : r.times_studied = 0

C26_IntervalGrows ==
  [][ \A k \in OneKey :
        (/\ last'.op = "grade" /\ last'.status = "recorded"
         /\ last'.is_correct
         /\ <<last'.user_id, last'.instrument_id>> = k)
        => LET old == CHOOSE r \in RowsOfKey(progress, k) : TRUE
               new == CHOOSE r \in RowsOfKey(progress', k) : TRUE
           IN  /\ new.interval_days >= old.interval_days
               /\ new.repetitions >= 3 => new.interval_days > old.interval_days ]_vars

\* a correct answer at the lowest ease factor a streak of two can have
\* (1.3 + 0.1 + 0.1) has lengthened the interval from 6 to 9 days
C26_Witness ==
  /\ last.op = "grade" /\ last.status = "recorded" /\ last.is_correct
  /\ \E r \in Rows : r.repetitions = 3 /\ r.interval_days = 9

\* C27: the streak bounds the interval of every record: repetitions 0 or 1
\* go with interval_days 1, repetitions 2 with interval_days 6, repetitions
\* of 3 or more with interval_days of 7 or more; and repetitions is at most
\* times_correct.
C27_StreakBands ==
  \A r \in Rows :
    /\ r.repetitions = 0 => r.interval_days = 1
    /\ r.repetitions = 1 => r.interval_days = 1
    /\ r.repetitions = 2 => r.interval_days = 6
    /\ r.repetitions >= 3 => r.interval_days >= 7
    /\ r.repetitions <= r.times_correct

\* a streak of three after an earlier streak was broken
C27_Witness ==
  \E r \in Rows : /\ r.repetitions = 3
                   /\ r.times_correct > r.repetitions
                   /\ r.times_studied > r.times_correct

StartedOn(u, d) ==
  {n \in DOMAIN quiz_sessions : /\ quiz_sessions[n].user_id = u
                                /\ quiz_sessions[n].started_at \div Day = d}

\* C29: with start_quiz requests in flight together, a free user never has
\* more than 3 sessions started within one UTC day.
C29_DailyLimitInFlight ==
  \A x \in users :
    x.subscription_tier = "free" =>
      \A d \in 0..(now \div Day) :
        Cardinality(StartedOn(x.id, d)) <= FREE_TIER_DAILY_QUIZZES

\* the rows a review-due answer lists
Listed(q) == {q[m] : m \in DOMAIN q}

\* C30: a record graded at instant t is not listed by the review-due query
\* before t + 1 day; from its next_review_at on it is listed, or left out
\* only because the limit is filled with records due no later; and a due
\* record stays due on every step but a recorded grade of its key, which
\* moves next_review_at into the future.
C30_DueWindow ==
  [][ /\ last'.op = "due" =>
           \A r \in BagToSet(progress') :
             (r.user_id = last'.user_id /\ r.last_studied_at # None) =>
               /\ now' < r.last_studied_at[1] + Day => r \notin Listed(last'.rows)
               /\ now' >= r.next_review_at[1] =>
                    \/ r \in Listed(last'.rows)
                    \/ /\ Len(last'.rows) = last'.limit
                       /\ \A x \in Listed(last'.rows) :
                            x.next_review_at[1] <= r.next_review_at[1]
      /\ \A r \in BagToSet(progress) :
           (r.last_studied_at # None /\ r.next_review_at[1] <= now) =>
             LET k == <<r.user_id, r.instrument_id>>
                 new == CHOOSE x \in RowsOfKey(progress', k) : TRUE
             IN  /\ RowsOfKey(progress', k) # {}
                 /\ IF /\ last'.op = "grade" /\ last'.status = "recorded"
                       /\ <<last'.user_id, last'.instrument_id>> = k
                       /\ progress' # progress
                    THEN new.next_review_at[1] > now'
                    ELSE /\ new.next_review_at = r.next_review_at
                         /\ new.next_review_at[1] <= now' ]_vars

\* the query is answered at the very instant a record falls due, a day
\* after its grade, while another record of the user, graded later, is
\* not due yet
C30_Witness ==
  /\ last.op = "due"
  /\ \E r \in Listed(last.rows) :
       r.next_review_at[1] = now /\ r.last_studied_at[1] + Day = now
  /\ \E r \in Rows : /\ r.user_id = last.user_id
                      /\ r.last_studied_at # None
                      /\ r \notin Listed(last.rows)

====
